---- MODULE Spec2Model ----
(***************************************************************************)
(* Model of src/allocation.cc (V8): the paged allocation functions         *)
(* (AllocatePages, FreePages, ReleasePages, SetPermissions), the retry     *)
(* loop around the allocate primitive, and the VirtualMemory reservation   *)
(* handle.  Every handler is one atomic action; the primitive calls and    *)
(* pressure notifications a handler makes are recorded, in order, in       *)
(* `calls`.  size_t / Address arithmetic is modulo Word.                   *)
(*                                                                         *)
(* DCHECK is compiled in only in debug builds: `dcheck` is the build       *)
(* flavour, fixed at start.  CHECK is always compiled in.  A failed        *)
(* (D)CHECK ends the process ("fatal"); a call through a null              *)
(* v8::PageAllocator* ends it with a crash ("crash").  In a release build  *)
(* a handler whose DCHECK would have failed runs to its end as the code    *)
(* says, and the process is then "undefined": the caller broke the         *)
(* contract and no further operation is followed.                          *)
(***************************************************************************)
EXTENDS Integers, Sequences, FiniteSets, TLC

\* ------------------------------------------------------------------ bounds
\* size_t and Address are WordBits wide.
WordBits == 5
\* The handles the callers own (handle 0 is the local `vm` of AllocVirtualMemory).
NumHandles == 2
\* The threads that call TakeControl on one source without synchronisation.
NumThreads == 2
\* The allocator hands out the pages 1..ArenaPages of its address space.
ArenaPages == NumHandles

Word == 2 ^ WordBits

\* --------------------------------------------------------------- constants
kAllocationTries == 2
kNullAddress == 0
nullptr == 0
NoAllocator == "nullptr"
PlatformAllocator == "page_allocator"

\* page_allocator->AllocatePageSize()
AllocatePageSize == 4

Tmp == 0
Threads == 1 .. NumThreads
Handles == 1 .. NumHandles
AllHandles == {Tmp} \cup Handles

\* The base addresses the allocator can return, and the end of its arena.
Addrs == {AllocatePageSize * i : i \in 1 .. ArenaPages}
ArenaEnd == AllocatePageSize * (ArenaPages + 1)
Unmapped == -1

VARIABLES
  dcheck,            \* TRUE: debug build, DCHECKs are compiled in
  commit_page_size,  \* page_allocator->CommitPageSize()
  vm,                \* the handles: life, page_allocator_, address_, size_
  mapped,            \* allocator: base address -> size of the outstanding range
  reserved,          \* allocator: base address -> size the range was allocated with
  calls,             \* the primitive calls and notifications of the last operation
  seen,              \* the handles as they were when each of these calls was made
  ret,               \* the value the last operation returned
  process,           \* "running", "fatal" (failed assertion), "crash" or "undefined"
  last,              \* the last operation and its arguments
  pc                 \* unsynchronised threads: the statement of TakeControl each is at

vars ==
  <<dcheck, commit_page_size, vm, mapped, reserved, calls, seen, ret, process, last,
    pc>>

\* page_allocator->CommitPageSize()
CommitPageSize == commit_page_size

\* ----------------------------------------------------------------- helpers
\* The part of the state a handler reads and writes, threaded through the
\* operators below in program order.
Cur ==
  [vm |-> vm, mapped |-> mapped, reserved |-> reserved, calls |-> <<>>,
   seen |-> <<>>, ret |-> 0, process |-> "running"]

\* A failed DCHECK / CHECK: V8_Fatal.
Fatal(s) == [s EXCEPT !.process = "fatal"]

\* A call of a virtual method through a null v8::PageAllocator*.
Crash(s) == [s EXCEPT !.process = "crash"]

\* The handler has ended the process.
Stopped(s) == s.process \in {"fatal", "crash"}

\* DCHECK(cond) on an argument or on the state the caller presents: fatal in
\* a debug build; compiled out of a release build, where the handler runs on
\* and the process is from then on outside the contract ("undefined").
DCHECK(s, cond) ==
  IF cond THEN s
  ELSE IF dcheck THEN Fatal(s)
  ELSE [s EXCEPT !.process = "undefined"]

\* CHECK(cond): fatal in every build.
CHECK(s, cond) == IF cond THEN s ELSE Fatal(s)

\* One recorded call: primitive or notification f on a with the arguments
\* x, y, z and the answer r (an address, or 1 for true and 0 for false).
Ev(f, a, x, y, z, r) == [f |-> f, a |-> a, x |-> x, y |-> y, z |-> z, r |-> r]

Bit(b) == IF b THEN 1 ELSE 0

\* The call e is made: it is recorded with the handles as they are then.
Log(s, e) == [s EXCEPT !.calls = Append(@, e), !.seen = Append(@, s.vm)]

\* RoundUp(x, m) of src/utils.h for a power of two m, in size_t arithmetic.
RoundUp(x, m) ==
  LET y == (x + m - 1) % Word IN y - (y % m)

\* AlignedAddress(address, alignment) of src/allocation.h: address & ~(alignment - 1).
AlignedAddress(address, alignment) == address - (address % alignment)

\* IsAddressAligned(address, alignment) of src/utils.h.
IsAddressAligned(address, alignment) == address % alignment = 0

\* VirtualMemory::IsReserved() of src/allocation.h.
IsReserved(v) == v.address_ # kNullAddress

\* VirtualMemory::InVM(address, size) of src/allocation.h.
InVM(v, address, size) ==
  /\ v.address_ <= address
  /\ (v.address_ + v.size_) % Word >= (address + size) % Word

\* VirtualMemory::VirtualMemory() of src/allocation.h: an Empty handle.
EmptyHandle ==
  [life |-> "live", page_allocator_ |-> NoAllocator,
   address_ |-> kNullAddress, size_ |-> 0]

NoHandle == [EmptyHandle EXCEPT !.life = "unborn"]

\* ------------------------------------------------- the allocator primitives
\* An address the allocator may return for (size, alignment): aligned, inside
\* its arena, not the base of and not overlapping an outstanding range.
Fresh(s, a, size, alignment) ==
  /\ a \in Addrs
  /\ a % alignment = 0
  /\ a + size <= ArenaEnd
  /\ s.mapped[a] = Unmapped
  /\ \A b \in Addrs : s.mapped[b] # Unmapped =>
        (a + size <= b \/ b + s.mapped[b] <= a)

\* page_allocator->AllocatePages(address, size, alignment, access): cand is
\* the place the allocator tries, or null when it has no memory to give; it
\* answers cand when that is a Fresh address for (size, alignment), else null.
PrimAllocatePages(s, page_allocator, address, size, alignment, cand) ==
  LET result == IF cand # nullptr /\ Fresh(s, cand, size, alignment)
                  THEN cand ELSE nullptr
      s1 == Log(s, Ev("AllocatePages", page_allocator, address, size, alignment,
                      result))
  IN IF result = nullptr
       THEN [s1 EXCEPT !.ret = nullptr]
       ELSE [s1 EXCEPT !.ret = result, !.mapped[result] = size,
                       !.reserved[result] = size]

\* page_allocator->FreePages(address, size): ok is the allocator's answer.
PrimFreePages(s, page_allocator, address, size, ok) ==
  LET s1 == Log(s, Ev("FreePages", page_allocator, address, size, 0, Bit(ok)))
      s2 == [s1 EXCEPT !.ret = ok]
  IN IF address \in Addrs /\ ok
       THEN [s2 EXCEPT !.mapped[address] = Unmapped,
                       !.reserved[address] = Unmapped]
       ELSE s2

\* page_allocator->ReleasePages(address, size, new_size).
PrimReleasePages(s, page_allocator, address, size, new_size, ok) ==
  LET s1 == Log(s, Ev("ReleasePages", page_allocator, address, size, new_size,
                      Bit(ok)))
      s2 == [s1 EXCEPT !.ret = ok]
  IN IF address \in Addrs /\ ok /\ s.mapped[address] # Unmapped
       THEN [s2 EXCEPT !.mapped[address] = new_size]
       ELSE s2

\* page_allocator->SetPermissions(address, size, access).
PrimSetPermissions(s, page_allocator, address, size, ok) ==
  [Log(s, Ev("SetPermissions", page_allocator, address, size, 0, Bit(ok)))
     EXCEPT !.ret = ok]

\* ------------------------------------------------ paged allocation functions
\* Faulty variant of OnCriticalMemoryPressure: the parameterless callback is
\* called when the sized one answered true.
OnCriticalMemoryPressure_Inverted(s, length, sized) ==
  LET s1 == Log(s, Ev("OnCriticalMemoryPressure(length)", "platform", length,
                      0, 0, Bit(sized)))
      s2 == IF sized
              THEN Log(s1, Ev("OnCriticalMemoryPressure()", "platform", 0, 0, 0, 0))
              ELSE s1
  IN [s2 EXCEPT !.ret = TRUE]

\* Faulty variant of OnCriticalMemoryPressure: it returns what the platform's
\* sized callback answered.
OnCriticalMemoryPressure_ReturnsSized(s, length, sized) ==
  LET s1 == Log(s, Ev("OnCriticalMemoryPressure(length)", "platform", length,
                      0, 0, Bit(sized)))
      s2 == IF ~sized
              THEN Log(s1, Ev("OnCriticalMemoryPressure()", "platform", 0, 0, 0, 0))
              ELSE s1
  IN [s2 EXCEPT !.ret = sized]

\* OnCriticalMemoryPressure(length): sized is the answer of the platform's
\* sized callback.
OnCriticalMemoryPressure(s, length, sized) ==
  LET s1 == Log(s, Ev("OnCriticalMemoryPressure(length)", "platform", length,
                      0, 0, Bit(sized)))
      s2 == IF ~sized
              THEN Log(s1, Ev("OnCriticalMemoryPressure()", "platform", 0, 0, 0, 0))
              ELSE s1
  IN [s2 EXCEPT !.ret = TRUE]

\* Faulty variant of the loop of AllocatePages: a successful attempt does not
\* end the loop.
RECURSIVE AllocatePagesLoop_NoBreak(_, _, _, _, _, _, _, _, _)
AllocatePagesLoop_NoBreak(s, i, result, page_allocator, address, size, alignment, res, sized) ==
  IF ~(i < kAllocationTries)
    THEN [s EXCEPT !.ret = result]
    ELSE
      LET s1 == PrimAllocatePages(s, page_allocator, address, size, alignment, res[i + 1])
      IN IF s1.ret # nullptr
           THEN AllocatePagesLoop_NoBreak(s1, i + 1, s1.ret, page_allocator,
                                          address, size, alignment, res, sized)
           ELSE
             LET request_size == (size + alignment - AllocatePageSize) % Word
                 s2 == OnCriticalMemoryPressure(s1, request_size, sized[i + 1])
             IN IF ~s2.ret
                  THEN [s2 EXCEPT !.ret = nullptr]
                  ELSE AllocatePagesLoop_NoBreak(s2, i + 1, nullptr, page_allocator,
                                                 address, size, alignment, res, sized)

\* The for loop of AllocatePages from iteration i on; res[i + 1] is where the
\* allocator tries on attempt i, sized[i + 1] the platform's answer to the
\* notification after it.
RECURSIVE AllocatePagesLoop(_, _, _, _, _, _, _, _, _)
AllocatePagesLoop(s, i, result, page_allocator, address, size, alignment, res, sized) ==
  IF ~(i < kAllocationTries)
    THEN [s EXCEPT !.ret = result]
    ELSE
      LET s1 == PrimAllocatePages(s, page_allocator, address, size, alignment, res[i + 1])
      IN IF s1.ret # nullptr
           THEN s1
           ELSE
             LET request_size == (size + alignment - AllocatePageSize) % Word
                 s2 == OnCriticalMemoryPressure(s1, request_size, sized[i + 1])
             IN IF ~s2.ret
                  THEN [s2 EXCEPT !.ret = nullptr]
                  ELSE AllocatePagesLoop(s2, i + 1, nullptr, page_allocator,
                                         address, size, alignment, res, sized)

\* AllocatePages(page_allocator, address, size, alignment, access).
AllocatePages(s, page_allocator, address, size, alignment, res, sized) ==
  LET s1 == DCHECK(s, page_allocator # NoAllocator) IN
  IF Stopped(s1) THEN s1 ELSE
  LET s2 == DCHECK(s1, address = AlignedAddress(address, alignment)) IN
  IF Stopped(s2) THEN s2 ELSE
  IF page_allocator = NoAllocator THEN Crash(s2) ELSE
  LET s3 == DCHECK(s2, size % AllocatePageSize = 0) IN
  IF Stopped(s3) THEN s3 ELSE
  AllocatePagesLoop(s3, 0, nullptr, page_allocator, address, size, alignment,
                    res, sized)

\* Faulty variant of FreePages: a failure is retried once after a memory
\* pressure notification, as in AllocatePages.
FreePages_Retried(s, page_allocator, address, size, ok) ==
  LET s1 == DCHECK(s, page_allocator # NoAllocator) IN
  IF Stopped(s1) THEN s1 ELSE
  IF page_allocator = NoAllocator THEN Crash(s1) ELSE
  LET s2 == DCHECK(s1, size % AllocatePageSize = 0) IN
  IF Stopped(s2) THEN s2 ELSE
  LET s3 == PrimFreePages(s2, page_allocator, address, size, ok) IN
  IF s3.ret THEN s3 ELSE
  PrimFreePages(OnCriticalMemoryPressure(s3, size, TRUE), page_allocator,
                address, size, ok)

\* FreePages(page_allocator, address, size).
FreePages(s, page_allocator, address, size, ok) ==
  LET s1 == DCHECK(s, page_allocator # NoAllocator) IN
  IF Stopped(s1) THEN s1 ELSE
  IF page_allocator = NoAllocator THEN Crash(s1) ELSE
  LET s2 == DCHECK(s1, size % AllocatePageSize = 0) IN
  IF Stopped(s2) THEN s2 ELSE
  PrimFreePages(s2, page_allocator, address, size, ok)

\* ReleasePages(page_allocator, address, size, new_size).
ReleasePages(s, page_allocator, address, size, new_size, ok) ==
  LET s1 == DCHECK(s, page_allocator # NoAllocator) IN
  IF Stopped(s1) THEN s1 ELSE
  LET s2 == DCHECK(s1, new_size < size) IN
  IF Stopped(s2) THEN s2 ELSE
  IF page_allocator = NoAllocator THEN Crash(s2) ELSE
  PrimReleasePages(s2, page_allocator, address, size, new_size, ok)

\* SetPermissions(page_allocator, address, size, access).
SetPermissions(s, page_allocator, address, size, ok) ==
  LET s1 == DCHECK(s, page_allocator # NoAllocator) IN
  IF Stopped(s1) THEN s1 ELSE
  IF page_allocator = NoAllocator THEN Crash(s1) ELSE
  PrimSetPermissions(s1, page_allocator, address, size, ok)

\* ----------------------------------------------------------- VirtualMemory
\* Faulty variant of Reset: the size is left as it was.
Reset_KeepsSize(s, h) ==
  [s EXCEPT !.vm[h].page_allocator_ = NoAllocator,
            !.vm[h].address_ = kNullAddress]

\* VirtualMemory::Reset().
Reset(s, h) ==
  [s EXCEPT !.vm[h].page_allocator_ = NoAllocator,
            !.vm[h].address_ = kNullAddress,
            !.vm[h].size_ = 0]

\* Faulty variant of the constructor: the rounded size is stored whether or
\* not the reservation succeeded.
VirtualMemory_VirtualMemory_SizeAlways(s, h, page_allocator, size0, hint, alignment0, res, sized) ==
  LET s0 == [s EXCEPT !.vm[h] = [EmptyHandle EXCEPT !.page_allocator_ = page_allocator]]
      s1 == DCHECK(s0, page_allocator # NoAllocator)
  IN
  IF Stopped(s1) THEN s1 ELSE
  IF page_allocator = NoAllocator THEN Crash(s1) ELSE
  LET page_size == AllocatePageSize
      alignment == RoundUp(alignment0, page_size)
      size == RoundUp(size0, page_size)
      s2 == AllocatePages(s1, page_allocator, hint, size, alignment, res, sized)
  IN
  IF Stopped(s2) THEN s2 ELSE
  [s2 EXCEPT !.vm[h].address_ = s2.ret, !.vm[h].size_ = size]

\* Faulty variant of the constructor: the size is stored as it was requested,
\* not as it was rounded.
VirtualMemory_VirtualMemory_Unrounded(s, h, page_allocator, size0, hint, alignment0, res, sized) ==
  LET s0 == [s EXCEPT !.vm[h] = [EmptyHandle EXCEPT !.page_allocator_ = page_allocator]]
      s1 == DCHECK(s0, page_allocator # NoAllocator)
  IN
  IF Stopped(s1) THEN s1 ELSE
  IF page_allocator = NoAllocator THEN Crash(s1) ELSE
  LET page_size == AllocatePageSize
      alignment == RoundUp(alignment0, page_size)
      size == RoundUp(size0, page_size)
      s2 == AllocatePages(s1, page_allocator, hint, size, alignment, res, sized)
  IN
  IF Stopped(s2) THEN s2 ELSE
  LET s3 == [s2 EXCEPT !.vm[h].address_ = s2.ret] IN
  IF s3.vm[h].address_ # kNullAddress
    THEN [s3 EXCEPT !.vm[h].size_ = size0]
    ELSE s3

\* VirtualMemory::VirtualMemory(page_allocator, size, hint, alignment).
VirtualMemory_VirtualMemory(s, h, page_allocator, size0, hint, alignment0, res, sized) ==
  LET s0 == [s EXCEPT !.vm[h] = [EmptyHandle EXCEPT !.page_allocator_ = page_allocator]]
      s1 == DCHECK(s0, page_allocator # NoAllocator)
  IN
  IF Stopped(s1) THEN s1 ELSE
  IF page_allocator = NoAllocator THEN Crash(s1) ELSE
  LET page_size == AllocatePageSize
      alignment == RoundUp(alignment0, page_size)
      size == RoundUp(size0, page_size)
      s2 == AllocatePages(s1, page_allocator, hint, size, alignment, res, sized)
  IN
  IF Stopped(s2) THEN s2 ELSE
  LET s3 == [s2 EXCEPT !.vm[h].address_ = s2.ret] IN
  IF s3.vm[h].address_ # kNullAddress
    THEN [s3 EXCEPT !.vm[h].size_ = size]
    ELSE s3

\* Faulty variant of Free: the size is passed to FreePages as it is stored.
VirtualMemory_Free_Unrounded(s, h, ok) ==
  LET s1 == DCHECK(s, IsReserved(s.vm[h])) IN
  IF Stopped(s1) THEN s1 ELSE
  LET page_allocator == s1.vm[h].page_allocator_
      address == s1.vm[h].address_
      size == s1.vm[h].size_
      s2 == CHECK(s1, InVM(s1.vm[h], address, size))
  IN
  IF Stopped(s2) THEN s2 ELSE
  LET s3 == Reset(s2, h) IN
  IF page_allocator = NoAllocator THEN Crash(s3) ELSE
  LET s4 == FreePages(s3, page_allocator, address, size, ok) IN
  IF Stopped(s4) THEN s4 ELSE CHECK(s4, s4.ret)

\* Faulty variant of Free: the handle is reset after the call of FreePages.
VirtualMemory_Free_ResetAfter(s, h, ok) ==
  LET s1 == DCHECK(s, IsReserved(s.vm[h])) IN
  IF Stopped(s1) THEN s1 ELSE
  LET page_allocator == s1.vm[h].page_allocator_
      address == s1.vm[h].address_
      size == s1.vm[h].size_
      s2 == CHECK(s1, InVM(s1.vm[h], address, size))
  IN
  IF Stopped(s2) THEN s2 ELSE
  IF page_allocator = NoAllocator THEN Crash(s2) ELSE
  LET s3 == FreePages(s2, page_allocator, address,
                      RoundUp(size, AllocatePageSize), ok)
  IN
  IF Stopped(s3) THEN s3 ELSE
  LET s4 == CHECK(s3, s3.ret) IN
  IF Stopped(s4) THEN s4 ELSE Reset(s4, h)

\* Faulty variant of Free: IsReserved() is not asserted.
VirtualMemory_Free_Unasserted(s, h, ok) ==
  LET page_allocator == s.vm[h].page_allocator_
      address == s.vm[h].address_
      size == s.vm[h].size_
      s2 == CHECK(s, InVM(s.vm[h], address, size))
  IN
  IF Stopped(s2) THEN s2 ELSE
  LET s3 == Reset(s2, h) IN
  IF page_allocator = NoAllocator THEN Crash(s3) ELSE
  LET s4 == FreePages(s3, page_allocator, address,
                      RoundUp(size, AllocatePageSize), ok)
  IN
  IF Stopped(s4) THEN s4 ELSE CHECK(s4, s4.ret)

\* VirtualMemory::Free().
VirtualMemory_Free(s, h, ok) ==
  LET s1 == DCHECK(s, IsReserved(s.vm[h])) IN
  IF Stopped(s1) THEN s1 ELSE
  LET page_allocator == s1.vm[h].page_allocator_
      address == s1.vm[h].address_
      size == s1.vm[h].size_
      s2 == CHECK(s1, InVM(s1.vm[h], address, size))
  IN
  IF Stopped(s2) THEN s2 ELSE
  LET s3 == Reset(s2, h) IN
  IF page_allocator = NoAllocator THEN Crash(s3) ELSE
  LET s4 == FreePages(s3, page_allocator, address,
                      RoundUp(size, AllocatePageSize), ok)
  IN
  IF Stopped(s4) THEN s4 ELSE CHECK(s4, s4.ret)

\* Faulty variant of the destructor: it does not free.
VirtualMemory_Destroy_NoFree(s, h, ok) ==
  [s EXCEPT !.vm[h] = [NoHandle EXCEPT !.life = IF h = Tmp THEN "unborn" ELSE "dead"]]

\* VirtualMemory::~VirtualMemory().
VirtualMemory_Destroy(s, h, ok) ==
  LET s1 == IF IsReserved(s.vm[h]) THEN VirtualMemory_Free(s, h, ok) ELSE s IN
  IF Stopped(s1) THEN s1 ELSE
  [s1 EXCEPT !.vm[h] = [NoHandle EXCEPT !.life = IF h = Tmp THEN "unborn" ELSE "dead"]]

\* Faulty variant of Release: the size is reduced after the call of
\* ReleasePages.
VirtualMemory_Release_ShrinkAfter(s, h, free_start, ok) ==
  LET s1 == DCHECK(s, IsReserved(s.vm[h])) IN
  IF Stopped(s1) THEN s1 ELSE
  LET s2 == DCHECK(s1, IsAddressAligned(free_start, CommitPageSize)) IN
  IF Stopped(s2) THEN s2 ELSE
  LET v == s2.vm[h]
      free_size == (v.size_ - (free_start - v.address_)) % Word
      old_size == v.size_
      s3 == CHECK(s2, InVM(v, free_start, free_size))
  IN
  IF Stopped(s3) THEN s3 ELSE
  LET s4 == DCHECK(s3, v.address_ < free_start) IN
  IF Stopped(s4) THEN s4 ELSE
  LET s5 == DCHECK(s4, free_start < (v.address_ + v.size_) % Word) IN
  IF Stopped(s5) THEN s5 ELSE
  LET s7 == ReleasePages(s5, v.page_allocator_, v.address_, old_size,
                         (old_size - free_size) % Word, ok)
  IN
  IF Stopped(s7) THEN s7 ELSE
  LET s8 == CHECK(s7, s7.ret) IN
  IF Stopped(s8) THEN s8 ELSE
  [s8 EXCEPT !.vm[h].size_ = (@ - free_size) % Word, !.ret = free_size]

\* Faulty variant of Release: the freed length is stored as the new size.
VirtualMemory_Release_StoresFreed(s, h, free_start, ok) ==
  LET s1 == DCHECK(s, IsReserved(s.vm[h])) IN
  IF Stopped(s1) THEN s1 ELSE
  LET s2 == DCHECK(s1, IsAddressAligned(free_start, CommitPageSize)) IN
  IF Stopped(s2) THEN s2 ELSE
  LET v == s2.vm[h]
      free_size == (v.size_ - (free_start - v.address_)) % Word
      old_size == v.size_
      s3 == CHECK(s2, InVM(v, free_start, free_size))
  IN
  IF Stopped(s3) THEN s3 ELSE
  LET s4 == DCHECK(s3, v.address_ < free_start) IN
  IF Stopped(s4) THEN s4 ELSE
  LET s5 == DCHECK(s4, free_start < (v.address_ + v.size_) % Word) IN
  IF Stopped(s5) THEN s5 ELSE
  LET s6 == [s5 EXCEPT !.vm[h].size_ = free_size]
      s7 == ReleasePages(s6, v.page_allocator_, v.address_, old_size,
                         s6.vm[h].size_, ok)
  IN
  IF Stopped(s7) THEN s7 ELSE
  LET s8 == CHECK(s7, s7.ret) IN
  IF Stopped(s8) THEN s8 ELSE [s8 EXCEPT !.ret = free_size]

\* VirtualMemory::Release(free_start).
VirtualMemory_Release(s, h, free_start, ok) ==
  LET s1 == DCHECK(s, IsReserved(s.vm[h])) IN
  IF Stopped(s1) THEN s1 ELSE
  LET s2 == DCHECK(s1, IsAddressAligned(free_start, CommitPageSize)) IN
  IF Stopped(s2) THEN s2 ELSE
  LET v == s2.vm[h]
      free_size == (v.size_ - (free_start - v.address_)) % Word
      old_size == v.size_
      s3 == CHECK(s2, InVM(v, free_start, free_size))
  IN
  IF Stopped(s3) THEN s3 ELSE
  LET s4 == DCHECK(s3, v.address_ < free_start) IN
  IF Stopped(s4) THEN s4 ELSE
  LET s5 == DCHECK(s4, free_start < (v.address_ + v.size_) % Word) IN
  IF Stopped(s5) THEN s5 ELSE
  LET s6 == [s5 EXCEPT !.vm[h].size_ = (@ - free_size) % Word]
      s7 == ReleasePages(s6, v.page_allocator_, v.address_, old_size,
                         s6.vm[h].size_, ok)
  IN
  IF Stopped(s7) THEN s7 ELSE
  LET s8 == CHECK(s7, s7.ret) IN
  IF Stopped(s8) THEN s8 ELSE [s8 EXCEPT !.ret = free_size]

\* Faulty variant of VirtualMemory::SetPermissions: the result is asserted
\* with CHECK.
VirtualMemory_SetPermissions_Checked(s, h, address, size, ok) ==
  LET s1 == CHECK(s, InVM(s.vm[h], address, size)) IN
  IF Stopped(s1) THEN s1 ELSE
  LET s2 == SetPermissions(s1, s1.vm[h].page_allocator_, address, size, ok) IN
  IF Stopped(s2) THEN s2 ELSE CHECK(s2, s2.ret)

\* VirtualMemory::SetPermissions(address, size, access).
VirtualMemory_SetPermissions(s, h, address, size, ok) ==
  LET s1 == CHECK(s, InVM(s.vm[h], address, size)) IN
  IF Stopped(s1) THEN s1 ELSE
  LET s2 == SetPermissions(s1, s1.vm[h].page_allocator_, address, size, ok) IN
  IF Stopped(s2) THEN s2 ELSE
  IF dcheck /\ ~s2.ret THEN Fatal(s2) ELSE s2

\* Faulty variant of TakeControl: the source is not reset.
VirtualMemory_TakeControl_NoReset(s, h, from) ==
  LET s0 == DCHECK(s, ~IsReserved(s.vm[h])) IN
  IF Stopped(s0) THEN s0 ELSE
  [s0 EXCEPT !.vm[h].page_allocator_ = s0.vm[from].page_allocator_,
             !.vm[h].address_ = s0.vm[from].address_,
             !.vm[h].size_ = s0.vm[from].size_]

\* Faulty variant of TakeControl: the size is not copied.
VirtualMemory_TakeControl_NoSize(s, h, from) ==
  LET s0 == DCHECK(s, ~IsReserved(s.vm[h])) IN
  IF Stopped(s0) THEN s0 ELSE
  LET s1 == [s0 EXCEPT !.vm[h].page_allocator_ = s0.vm[from].page_allocator_]
      s2 == [s1 EXCEPT !.vm[h].address_ = s1.vm[from].address_]
  IN Reset(s2, from)

\* VirtualMemory::TakeControl(from), called on handle h.
VirtualMemory_TakeControl(s, h, from) ==
  LET s0 == DCHECK(s, ~IsReserved(s.vm[h])) IN
  IF Stopped(s0) THEN s0 ELSE
  LET s1 == [s0 EXCEPT !.vm[h].page_allocator_ = s0.vm[from].page_allocator_]
      s2 == [s1 EXCEPT !.vm[h].address_ = s1.vm[from].address_]
      s3 == [s2 EXCEPT !.vm[h].size_ = s2.vm[from].size_]
  IN Reset(s3, from)

\* The statements of TakeControl: the assertion, the three copies and the
\* three assignments of from->Reset(); a thread at TakeControlEnd has returned.
TakeControlEnd == 7

\* Faulty variant of a statement of TakeControl: the size is not copied.
TakeControlStep_NoSize(s, h, from, i) ==
  CASE i = 0 -> DCHECK(s, ~IsReserved(s.vm[h]))
    [] i = 1 -> [s EXCEPT !.vm[h].page_allocator_ = s.vm[from].page_allocator_]
    [] i = 2 -> [s EXCEPT !.vm[h].address_ = s.vm[from].address_]
    [] i = 3 -> s
    [] i = 4 -> [s EXCEPT !.vm[from].page_allocator_ = NoAllocator]
    [] i = 5 -> [s EXCEPT !.vm[from].address_ = kNullAddress]
    [] i = 6 -> [s EXCEPT !.vm[from].size_ = 0]

\* Statement i of VirtualMemory::TakeControl(from), called on handle h, with
\* from->Reset() inlined: what a thread does in one step when no lock makes
\* the call atomic.
TakeControlStep(s, h, from, i) ==
  CASE i = 0 -> DCHECK(s, ~IsReserved(s.vm[h]))
    [] i = 1 -> [s EXCEPT !.vm[h].page_allocator_ = s.vm[from].page_allocator_]
    [] i = 2 -> [s EXCEPT !.vm[h].address_ = s.vm[from].address_]
    [] i = 3 -> [s EXCEPT !.vm[h].size_ = s.vm[from].size_]
    [] i = 4 -> [s EXCEPT !.vm[from].page_allocator_ = NoAllocator]
    [] i = 5 -> [s EXCEPT !.vm[from].address_ = kNullAddress]
    [] i = 6 -> [s EXCEPT !.vm[from].size_ = 0]

\* Faulty variant of AlignedAllocVirtualMemory: the fields of the local `vm`
\* are copied to the result and `vm` is left as it is.
AlignedAllocVirtualMemory_Copied(s, page_allocator, size, alignment, hint, result, res, sized) ==
  LET s1 == VirtualMemory_VirtualMemory(s, Tmp, page_allocator, size, hint,
                                        alignment, res, sized)
  IN
  IF Stopped(s1) THEN s1 ELSE
  IF IsReserved(s1.vm[Tmp])
    THEN
      LET s2 == [s1 EXCEPT !.vm[result].page_allocator_ = s1.vm[Tmp].page_allocator_,
                           !.vm[result].address_ = s1.vm[Tmp].address_,
                           !.vm[result].size_ = s1.vm[Tmp].size_]
          s3 == VirtualMemory_Destroy(s2, Tmp, TRUE)
      IN IF Stopped(s3) THEN s3 ELSE [s3 EXCEPT !.ret = TRUE]
    ELSE
      LET s2 == VirtualMemory_Destroy(s1, Tmp, TRUE) IN
      IF Stopped(s2) THEN s2 ELSE [s2 EXCEPT !.ret = FALSE]

\* AlignedAllocVirtualMemory(page_allocator, size, alignment, hint, result);
\* the local `vm` is handle Tmp.
AlignedAllocVirtualMemory(s, page_allocator, size, alignment, hint, result, res, sized) ==
  LET s1 == VirtualMemory_VirtualMemory(s, Tmp, page_allocator, size, hint,
                                        alignment, res, sized)
  IN
  IF Stopped(s1) THEN s1 ELSE
  IF IsReserved(s1.vm[Tmp])
    THEN
      LET s2 == VirtualMemory_TakeControl(s1, result, Tmp) IN
      IF Stopped(s2) THEN s2 ELSE
      LET s3 == VirtualMemory_Destroy(s2, Tmp, TRUE) IN
      IF Stopped(s3) THEN s3 ELSE [s3 EXCEPT !.ret = TRUE]
    ELSE
      LET s2 == VirtualMemory_Destroy(s1, Tmp, TRUE) IN
      IF Stopped(s2) THEN s2 ELSE [s2 EXCEPT !.ret = FALSE]

\* AllocVirtualMemory(page_allocator, size, hint, result): the constructor's
\* alignment defaults to AllocatePageSize().
AllocVirtualMemory(s, page_allocator, size, hint, result, res, sized) ==
  AlignedAllocVirtualMemory(s, page_allocator, size, AllocatePageSize, hint,
                            result, res, sized)

\* ------------------------------------------------------------------ inputs
\* Where the allocator tries on each attempt of one AllocatePages call.
Attempts == [1 .. kAllocationTries -> {nullptr} \cup Addrs]

\* The allocator has memory on the first attempt or on none.
FirstAttempts == {res \in Attempts : \A i \in 2 .. kAllocationTries : res[i] = nullptr}

\* What the platform's sized callback answers after each attempt.
PressureAnswers(answers) == [1 .. kAllocationTries -> answers]

\* The inputs of the handle life cycle: requested sizes that round to 0, one
\* and two pages, at page alignment.
LifeInputs ==
  [allocators |-> {PlatformAllocator},
   sizes |-> {0, 1, AllocatePageSize + 1},
   alignments |-> {AllocatePageSize},
   hints |-> {nullptr},
   attempts |-> FirstAttempts,
   answers |-> {TRUE}]

\* The inputs of a reservation: every size of the word, the power-of-two
\* alignments up to two pages, an aligned and a misaligned hint, every
\* outcome of the attempts and of the notifications.
ReserveInputs ==
  [allocators |-> {PlatformAllocator, NoAllocator},
   sizes |-> 0 .. (Word - 1),
   alignments |-> {1, AllocatePageSize \div 2, AllocatePageSize, 2 * AllocatePageSize},
   hints |-> {nullptr, AllocatePageSize},
   attempts |-> Attempts,
   answers |-> BOOLEAN]

\* Release(address_ + k) for these k: the base itself, half a page (a commit
\* page, or misaligned when the commit page is the whole page) and a page
\* (inside the range, its end, or beyond it).
FreeStarts(v) ==
  {(v.address_ + k) % Word : k \in {0, AllocatePageSize \div 2, AllocatePageSize}}

\* An operation, the handles it is called on and its arguments.
Op(op, h, from, a1, a2, a3) ==
  [op |-> op, h |-> h, from |-> from, a1 |-> a1, a2 |-> a2, a3 |-> a3]

\* ----------------------------------------------------------------- actions
Live(h) == vm[h].life = "live"

\* The handles are interchangeable: their storage comes into being in index order.
Unborn(h) ==
  /\ vm[h].life = "unborn"
  /\ \A g \in Handles : g < h => vm[g].life # "unborn"

\* The state after a handler that took Cur to s.
Becomes(s, l) ==
  /\ vm' = s.vm
  /\ mapped' = s.mapped
  /\ reserved' = s.reserved
  /\ calls' = s.calls
  /\ seen' = s.seen
  /\ ret' = s.ret
  /\ process' = s.process
  /\ last' = l
  /\ UNCHANGED <<dcheck, commit_page_size, pc>>

Init ==
  /\ dcheck \in BOOLEAN
  /\ commit_page_size \in {AllocatePageSize \div 2, AllocatePageSize}
  /\ vm = [h \in AllHandles |-> NoHandle]
  /\ mapped = [a \in Addrs |-> Unmapped]
  /\ reserved = [a \in Addrs |-> Unmapped]
  /\ calls = <<>>
  /\ seen = <<>>
  /\ ret = 0
  /\ process = "running"
  /\ last = Op("none", 0, 0, 0, 0, 0)
  /\ pc = [t \in Threads |-> 0]

\* VirtualMemory vm;
DefaultConstruct(h) ==
  /\ process = "running"
  /\ Unborn(h)
  /\ Becomes([Cur EXCEPT !.vm[h] = EmptyHandle], Op("VirtualMemory()", h, 0, 0, 0, 0))

\* VirtualMemory vm(page_allocator, size, hint, alignment);
Construct(h, in) ==
  /\ process = "running"
  /\ Unborn(h)
  /\ \E page_allocator \in in.allocators, size \in in.sizes, hint \in in.hints,
        alignment \in in.alignments :
       \E res \in in.attempts, sized \in PressureAnswers(in.answers) :
           Becomes(VirtualMemory_VirtualMemory(Cur, h, page_allocator, size, hint,
                                               alignment, res, sized),
                   Op("VirtualMemory", h, 0, size, alignment, hint))

\* vm.Free();
Free(h) ==
  /\ process = "running"
  /\ Live(h)
  /\ \E ok \in BOOLEAN :
       Becomes(VirtualMemory_Free(Cur, h, ok), Op("Free", h, 0, vm[h].size_, 0, 0))

\* vm.Release(free_start);
Release(h) ==
  /\ process = "running"
  /\ Live(h)
  /\ \E free_start \in FreeStarts(vm[h]), ok \in BOOLEAN :
       Becomes(VirtualMemory_Release(Cur, h, free_start, ok),
               Op("Release", h, 0, free_start, 0, 0))

\* vm.SetPermissions(address, size, access);
SetPerms(h) ==
  /\ process = "running"
  /\ Live(h)
  /\ \E address \in {vm[h].address_},
        size \in {vm[h].size_, (vm[h].size_ + CommitPageSize) % Word}, ok \in BOOLEAN :
       Becomes(VirtualMemory_SetPermissions(Cur, h, address, size, ok),
               Op("SetPermissions", h, 0, address, size, 0))

\* vm.TakeControl(&from);
TakeControl(h, from) ==
  /\ process = "running"
  /\ Live(h)
  /\ Live(from)
  /\ Becomes(VirtualMemory_TakeControl(Cur, h, from),
             Op("TakeControl", h, from, 0, 0, 0))

\* The end of vm's lifetime.
Destroy(h) ==
  /\ process = "running"
  /\ Live(h)
  /\ \E ok \in BOOLEAN :
       Becomes(VirtualMemory_Destroy(Cur, h, ok), Op("~VirtualMemory", h, 0, 0, 0, 0))

\* AllocVirtualMemory(page_allocator, size, hint, &vm);
CallAllocVirtualMemory(h, in) ==
  /\ process = "running"
  /\ Live(h)
  /\ \E page_allocator \in in.allocators, size \in in.sizes, hint \in in.hints :
       \E res \in in.attempts, sized \in PressureAnswers(in.answers) :
           Becomes(AllocVirtualMemory(Cur, page_allocator, size, hint, h, res, sized),
                   Op("AllocVirtualMemory", h, 0, size, AllocatePageSize, hint))

\* AlignedAllocVirtualMemory(page_allocator, size, alignment, hint, &vm);
CallAlignedAllocVirtualMemory(h, in) ==
  /\ process = "running"
  /\ Live(h)
  /\ \E page_allocator \in in.allocators, size \in in.sizes, hint \in in.hints,
        alignment \in in.alignments :
       \E res \in in.attempts, sized \in PressureAnswers(in.answers) :
           Becomes(AlignedAllocVirtualMemory(Cur, page_allocator, size, alignment,
                                             hint, h, res, sized),
                   Op("AlignedAllocVirtualMemory", h, 0, size, alignment, hint))

Next ==
  \/ \E h \in Handles : DefaultConstruct(h)
  \/ \E h \in Handles : Construct(h, LifeInputs)
  \/ \E h \in Handles : Free(h)
  \/ \E h \in Handles : Release(h)
  \/ \E h \in Handles : SetPerms(h)
  \/ \E h, from \in Handles : TakeControl(h, from)
  \/ \E h \in Handles : Destroy(h)

Spec == Init /\ [][Next]_vars

\* One reservation, over all its inputs: the first handle is constructed and
\* destroyed.
First(h) == \A g \in Handles : h <= g

NextReserve ==
  \/ \E h \in Handles : First(h) /\ Construct(h, ReserveInputs)
  \/ \E h \in Handles : Destroy(h)

SpecReserve == Init /\ [][NextReserve]_vars

\* The inputs of the allocation helpers: those of the life cycle, at an
\* alignment of one and of two pages.
AllocInputs ==
  [LifeInputs EXCEPT !.alignments = {AllocatePageSize, 2 * AllocatePageSize}]

\* The allocation helpers: handles are default-constructed, filled by
\* AllocVirtualMemory or AlignedAllocVirtualMemory while they are not
\* Reserved, freed and destroyed.
NextAlloc ==
  \/ \E h \in Handles : DefaultConstruct(h)
  \/ \E h \in Handles : ~IsReserved(vm[h]) /\ CallAllocVirtualMemory(h, AllocInputs)
  \/ \E h \in Handles :
       ~IsReserved(vm[h]) /\ CallAlignedAllocVirtualMemory(h, AllocInputs)
  \/ \E h \in Handles : Free(h)
  \/ \E h \in Handles : Destroy(h)

SpecAlloc == Init /\ [][NextAlloc]_vars

\* Threads without synchronisation: handle 0 is Reserved, the handles of the
\* threads are Empty, and thread t calls vm[t].TakeControl(&vm[0]).
RaceSource == 0

InitRace ==
  /\ dcheck \in BOOLEAN
  /\ commit_page_size \in {AllocatePageSize \div 2, AllocatePageSize}
  /\ \E a \in Addrs, size \in {AllocatePageSize, 2 * AllocatePageSize} :
       /\ a + size <= ArenaEnd
       /\ vm = [h \in {RaceSource} \cup Threads |->
                  IF h = RaceSource
                    THEN [life |-> "live", page_allocator_ |-> PlatformAllocator,
                          address_ |-> a, size_ |-> size]
                    ELSE EmptyHandle]
       /\ mapped = [b \in Addrs |-> IF b = a THEN size ELSE Unmapped]
       /\ reserved = [b \in Addrs |-> IF b = a THEN size ELSE Unmapped]
  /\ calls = <<>>
  /\ seen = <<>>
  /\ ret = 0
  /\ process = "running"
  /\ last = Op("none", 0, 0, 0, 0, 0)
  /\ pc = [t \in Threads |-> 0]

\* Thread t executes its next statement of vm[t].TakeControl(&vm[0]).
Thread(t) ==
  /\ process = "running"
  /\ pc[t] < TakeControlEnd
  /\ LET s == TakeControlStep(Cur, t, RaceSource, pc[t]) IN
       /\ vm' = s.vm
       /\ process' = s.process
  /\ pc' = [pc EXCEPT ![t] = @ + 1]
  /\ UNCHANGED <<dcheck, commit_page_size, mapped, reserved, calls, seen, ret, last>>

NextRace == \E t \in Threads : Thread(t)

SpecRace == InitRace /\ [][NextRace]_vars

\* ================================================================== properties
Running == process = "running"

\* The three fields of a handle.
Fields(v) == <<v.page_allocator_, v.address_, v.size_>>

\* The recorded calls of kind f, in order.
CallsOf(f) == SelectSeq(calls, LAMBDA e : e.f = f)

\* ---------------------------------------------------------------------- C1
\* C1 as stated: in every state of a running process, for every live handle,
\* allocator = none <=> base address = null <=> size = 0.
C1_FieldsAgree ==
  Running =>
    \A h \in AllHandles : Live(h) =>
      /\ (vm[h].page_allocator_ = NoAllocator) <=> (vm[h].address_ = kNullAddress)
      /\ (vm[h].address_ = kNullAddress) <=> (vm[h].size_ = 0)

\* C1 amended: the fields agree in one direction only.  The allocator is none
\* only if the base address is null, and the base address is null only if the
\* size is 0.  (A failed construction keeps its allocator with a null address;
\* a reservation whose rounded size is 0 has a non-null address.)
C1_FieldsAgreeOneWay ==
  Running =>
    \A h \in AllHandles : Live(h) =>
      /\ (vm[h].page_allocator_ = NoAllocator) => (vm[h].address_ = kNullAddress)
      /\ (vm[h].address_ = kNullAddress) => (vm[h].size_ = 0)

\* C1 witness: a handle that Free has emptied, beside a handle whose
\* construction failed and which keeps its allocator.
C1_Witness ==
  /\ Running
  /\ last.op = "Free"
  /\ Fields(vm[last.h]) = <<NoAllocator, kNullAddress, 0>>
  /\ \E g \in Handles :
       /\ Live(g)
       /\ Fields(vm[g]) = <<PlatformAllocator, kNullAddress, 0>>

\* ---------------------------------------------------------------------- C2
\* C2: no two live handles are Reserved with the same allocator and base
\* address, in any state, whatever the process has come to.
C2_OneOwner ==
  \A g, h \in AllHandles :
    (g # h /\ Live(g) /\ Live(h) /\ IsReserved(vm[g]) /\ IsReserved(vm[h])) =>
      <<vm[g].page_allocator_, vm[g].address_>> #
        <<vm[h].page_allocator_, vm[h].address_>>

\* C2 witness: a TakeControl has moved a reservation out of a live source.
C2_Witness ==
  /\ Running
  /\ last.op = "TakeControl"
  /\ last.h # last.from
  /\ Live(last.from)
  /\ IsReserved(vm[last.h])
  /\ ~IsReserved(vm[last.from])

\* ---------------------------------------------------------------------- C3
\* The calls of a construction without the platform's parameterless
\* notification: the attempts and the notifications OnCriticalMemoryPressure
\* (length) between them.
Policy == SelectSeq(calls, LAMBDA e : e.f # "OnCriticalMemoryPressure()")

Attempted == CallsOf("AllocatePages")

Notified == CallsOf("OnCriticalMemoryPressure(length)")

\* A construction has just run its attempts to the end.
Reserved_Done ==
  /\ Running
  /\ last.op = "VirtualMemory"
  /\ Len(Attempted) > 0

AllFailed == \A i \in 1 .. Len(Attempted) : Attempted[i].r = nullptr

\* C3 as stated: when every attempt fails, AllocatePages returns null after
\* exactly kAllocationTries attempts and has fired the notification exactly
\* kAllocationTries - 1 times.
C3_BoundMinusOne ==
  (Reserved_Done /\ AllFailed) =>
    /\ Len(Attempted) = kAllocationTries
    /\ vm[last.h].address_ = kNullAddress
    /\ Len(Notified) = kAllocationTries - 1

\* C3 amended: when every attempt fails, AllocatePages returns null after
\* exactly kAllocationTries attempts and has fired the notification after each
\* of them, the last included: kAllocationTries times, each with the request
\* size, and nothing follows the last notification.
C3_NotifiedAfterEachFailure ==
  (Reserved_Done /\ AllFailed) =>
    /\ Len(Attempted) = kAllocationTries
    /\ vm[last.h].address_ = kNullAddress
    /\ Len(Notified) = kAllocationTries
    /\ Len(Policy) = 2 * kAllocationTries
    /\ \A i \in 1 .. kAllocationTries :
         /\ Policy[2 * i - 1].f = "AllocatePages"
         /\ Policy[2 * i].f = "OnCriticalMemoryPressure(length)"
         /\ Policy[2 * i].x =
              (Policy[2 * i - 1].y + Policy[2 * i - 1].z - AllocatePageSize) % Word

\* C3 witness: a construction of a one-page range whose attempts all failed,
\* the platform answering the first notification and not the second.
C3_Witness ==
  /\ Reserved_Done
  /\ AllFailed
  /\ last.a1 = AllocatePageSize
  /\ Len(Notified) = kAllocationTries
  /\ Notified[1].r = 1
  /\ Notified[kAllocationTries].r = 0

\* ---------------------------------------------------------------------- C4
\* C4: AllocatePages returns the first successful answer and stops there.  A
\* successful first attempt is the only call made; a failed first attempt is
\* followed by one notification and then the second attempt, whose answer, if
\* successful, is the result with nothing after it.
C4_FirstSuccessStops ==
  Reserved_Done =>
    /\ Policy[1].f = "AllocatePages"
    /\ Policy[1].r # nullptr =>
         /\ calls = <<Policy[1]>>
         /\ vm[last.h].address_ = Policy[1].r
    /\ Policy[1].r = nullptr =>
         /\ Len(Policy) >= 3
         /\ Policy[2].f = "OnCriticalMemoryPressure(length)"
         /\ Policy[3].f = "AllocatePages"
         /\ Policy[3].r # nullptr =>
              /\ Len(Policy) = 3
              /\ Len(Notified) = 1
              /\ vm[last.h].address_ = Policy[3].r

\* C4 witness: the first attempt failed and the second gave the second page.
C4_Witness ==
  /\ Reserved_Done
  /\ Len(Policy) = 3
  /\ Policy[1].r = nullptr
  /\ Policy[3].r = 2 * AllocatePageSize
  /\ vm[last.h].address_ = 2 * AllocatePageSize

\* ---------------------------------------------------------------------- C5
\* The primitive calls a Free of handle h would make from state s.
FreeCalls(s, h) == {VirtualMemory_Free(s, h, ok).calls : ok \in BOOLEAN}

\* C5: transfer law.  A TakeControl of a Reserved source into another, not
\* Reserved handle leaves the source Empty and the destination with exactly
\* the source's former allocator, address and size, and a Free of the
\* destination afterwards makes the one FreePages call, with the same
\* arguments, that a Free of the source would have made before.
C5_TransferLaw ==
  [][(/\ last'.op = "TakeControl"
      /\ last'.h # last'.from
      /\ IsReserved(vm[last'.from])
      /\ ~IsReserved(vm[last'.h]))
     =>
     /\ process' = "running"
     /\ Fields(vm'[last'.from]) = <<NoAllocator, kNullAddress, 0>>
     /\ Fields(vm'[last'.h]) = Fields(vm[last'.from])
     /\ \A g \in Handles \ {last'.h, last'.from} : vm'[g] = vm[g]
     /\ calls' = <<>>
     /\ FreeCalls(Cur', last'.h) = FreeCalls(Cur, last'.from)
     /\ \A c \in FreeCalls(Cur', last'.h) :
          /\ Len(c) = 1
          /\ c[1].f = "FreePages"
          /\ c[1].a = vm[last'.from].page_allocator_
          /\ c[1].x = vm[last'.from].address_
          /\ c[1].y = RoundUp(vm[last'.from].size_, AllocatePageSize)
    ]_vars

\* C5 witness: a two-page reservation has moved to a handle that was Empty.
C5_Witness ==
  /\ Running
  /\ last.op = "TakeControl"
  /\ last.h # last.from
  /\ Fields(vm[last.from]) = <<NoAllocator, kNullAddress, 0>>
  /\ vm[last.h].page_allocator_ = PlatformAllocator
  /\ vm[last.h].address_ \in Addrs
  /\ vm[last.h].size_ = 2 * AllocatePageSize

\* ---------------------------------------------------------------------- C6
\* C6: shrink law.  Release(a + k) on a Reserved handle with base a and size
\* S, 0 < k < S and k a multiple of the commit page size, sets the size to k,
\* keeps base and allocator, and calls the primitive ReleasePages once with
\* (a, S, k); it returns S - k when the primitive succeeds and is fatal when
\* it does not.  Every Release the process survives makes the size strictly
\* smaller and keeps base and allocator.
C6_ShrinkLaw ==
  [][(last'.op = "Release" /\ IsReserved(vm[last'.h]))
     =>
     LET h == last'.h
         a == vm[h].address_
         S == vm[h].size_
         k == last'.a1 - a
     IN /\ (0 < k /\ k < S /\ k % CommitPageSize = 0) =>
             /\ vm'[h].size_ = k
             /\ vm'[h].address_ = a
             /\ vm'[h].page_allocator_ = vm[h].page_allocator_
             /\ Len(calls') = 1
             /\ calls'[1].f = "ReleasePages"
             /\ <<calls'[1].a, calls'[1].x, calls'[1].y, calls'[1].z>> =
                  <<vm[h].page_allocator_, a, S, k>>
             /\ process' = (IF calls'[1].r = 1 THEN "running" ELSE "fatal")
             /\ process' = "running" => ret' = S - k
        /\ process' = "running" =>
             /\ vm'[h].size_ < S
             /\ 0 < vm'[h].size_
             /\ vm'[h].address_ = a
             /\ vm'[h].page_allocator_ = vm[h].page_allocator_
    ]_vars

\* C6 witness: a two-page reservation shrunk by Release(a + k), k one commit
\* page smaller than a page, which returned the rest.
C6_Witness ==
  /\ Running
  /\ last.op = "Release"
  /\ CommitPageSize < AllocatePageSize
  /\ vm[last.h].size_ = CommitPageSize
  /\ last.a1 = vm[last.h].address_ + CommitPageSize
  /\ ret = 2 * AllocatePageSize - CommitPageSize
  /\ Len(calls) = 1
  /\ calls[1].y = 2 * AllocatePageSize

\* ---------------------------------------------------------------------- C7
\* The live handles that are Reserved.
ReservedHandles == {h \in AllHandles : Live(h) /\ IsReserved(vm[h])}

\* C7 as stated: while the process runs, every Reserved handle has a base
\* address aligned to the allocate page size and a size that is a non-zero
\* multiple of the allocate page size.
C7_AllocateGranular ==
  Running =>
    \A h \in ReservedHandles :
      /\ vm[h].address_ % AllocatePageSize = 0
      /\ vm[h].size_ # 0
      /\ vm[h].size_ % AllocatePageSize = 0

\* C7 amended: while the process runs, every Reserved handle has a base
\* address aligned to the allocate page size and a size that is a multiple of
\* the commit page size.  A construction that succeeds stores the requested
\* size rounded up to the allocate page size, which is 0 exactly when the
\* request rounds to 0; a Release leaves a non-zero size smaller than before;
\* no other operation changes the size of a handle that stays Reserved, and a
\* TakeControl hands the source's size on.
C7_CommitGranular ==
  /\ [](Running =>
          \A h \in ReservedHandles :
            /\ vm[h].address_ % AllocatePageSize = 0
            /\ vm[h].size_ % CommitPageSize = 0)
  /\ [][process' = "running" =>
          \A h \in ReservedHandles' :
            CASE last'.op = "VirtualMemory" /\ h = last'.h ->
                   /\ vm'[h].size_ = RoundUp(last'.a1, AllocatePageSize)
                   /\ vm'[h].size_ % AllocatePageSize = 0
              [] last'.op = "Release" /\ h = last'.h ->
                   /\ 0 < vm'[h].size_
                   /\ vm'[h].size_ < vm[h].size_
              [] last'.op = "TakeControl" /\ h = last'.h ->
                   vm'[h].size_ = vm[last'.from].size_
              [] OTHER -> vm'[h].size_ = vm[h].size_
      ]_vars

\* C7 witness: beside a Reserved handle of size 0, made by a construction
\* with requested size 0, a handle shrunk by Release to one commit page, less
\* than an allocate page.
C7_Witness ==
  /\ Running
  /\ last.op = "Release"
  /\ vm[last.h].size_ = CommitPageSize
  /\ CommitPageSize < AllocatePageSize
  /\ \E g \in ReservedHandles : vm[g].size_ = 0

\* ---------------------------------------------------------------------- C8
\* C8: whenever a construction with requested size last.a1 and requested
\* alignment last.a2 succeeds, the stored base address is a multiple of the
\* requested alignment and of the allocate page size, and the stored size is
\* a multiple of the allocate page size and at least the requested size, for
\* every requested size of the word, those whose rounding wraps included.
C8_SizeCoversRequest ==
  (/\ Running
   /\ last.op = "VirtualMemory"
   /\ IsReserved(vm[last.h]))
  =>
  /\ vm[last.h].address_ % last.a2 = 0
  /\ vm[last.h].address_ % AllocatePageSize = 0
  /\ vm[last.h].size_ % AllocatePageSize = 0
  /\ vm[last.h].size_ >= last.a1

\* ---------------------------------------------------------------------- C9
\* A Free or a Release has just been called on a handle that was not
\* Reserved.
OnEmpty(op) == last'.op = op /\ ~IsReserved(vm[last'.h])

\* C9 as stated: Free on a handle that is not Reserved ends in the fatal
\* assertion and makes no primitive FreePages call, and Release on such a
\* handle makes no primitive ReleasePages call.
C9_EmptyIsFatal ==
  [][/\ OnEmpty("Free") =>
          (process' = "fatal" /\ CallsOf("FreePages")' = <<>>)
     /\ OnEmpty("Release") => CallsOf("ReleasePages")' = <<>>
    ]_vars

\* C9 amended: in a build that compiles DCHECK in, Free and Release on a
\* handle that is not Reserved end in the fatal assertion, make no call at all
\* and change no handle.  In a build that compiles DCHECK out, Free on a
\* handle that a failed construction left with its allocator passes
\* CHECK(InVM(...)) and calls the primitive FreePages with (null, 0).
C9_EmptyIsFatalInDebug ==
  [][/\ (dcheck /\ (OnEmpty("Free") \/ OnEmpty("Release"))) =>
          /\ process' = "fatal"
          /\ calls' = <<>>
          /\ vm' = vm
          /\ mapped' = mapped
     /\ (/\ ~dcheck
         /\ OnEmpty("Free")
         /\ vm[last'.h].page_allocator_ # NoAllocator) =>
          /\ Len(calls') = 1
          /\ calls'[1].f = "FreePages"
          /\ <<calls'[1].x, calls'[1].y>> = <<nullptr, 0>>
    ]_vars

\* C9 witness: with DCHECK compiled in, a Free of a handle with no allocator,
\* no address and no size was fatal, and nothing was called or changed.
C9_Witness ==
  /\ dcheck
  /\ process = "fatal"
  /\ last.op = "Free"
  /\ Fields(vm[last.h]) = <<NoAllocator, kNullAddress, 0>>
  /\ calls = <<>>
  /\ \A a \in Addrs : mapped[a] = Unmapped

\* --------------------------------------------------------------------- C10
\* The ranges the allocator has given out and not been asked to free.
Outstanding == {a \in Addrs : mapped[a] # Unmapped}

\* C10: no reservation outlives its handle and none is freed twice.  While
\* the process runs, every outstanding range is the range of exactly one live
\* handle, so none is left once no handle is live.  Every primitive FreePages
\* call on a range is the only one of its step, is made by a Free or a
\* destructor of the handle that holds the range, on a range outstanding
\* until then, and ends its being outstanding.  A destructor makes a
\* FreePages call if and only if its handle is Reserved.
C10_FreedExactlyOnce ==
  /\ [](Running =>
          /\ \A a \in Outstanding :
               \E h \in ReservedHandles :
                 /\ vm[h].address_ = a
                 /\ \A g \in ReservedHandles : vm[g].address_ = a => g = h
          /\ (ReservedHandles = {}) => (Outstanding = {}))
  /\ [][/\ \A i \in 1 .. Len(calls') :
             (calls'[i].f = "FreePages" /\ calls'[i].x \in Addrs) =>
               /\ Len(CallsOf("FreePages")') = 1
               /\ last'.op \in {"Free", "~VirtualMemory"}
               /\ calls'[i].x \in Outstanding
               /\ calls'[i].x = vm[last'.h].address_
               /\ calls'[i].a = vm[last'.h].page_allocator_
               /\ process' = "running" => calls'[i].x \notin Outstanding'
        /\ last'.op = "~VirtualMemory" =>
             (CallsOf("FreePages")' # <<>> <=> IsReserved(vm[last'.h]))
      ]_vars

\* C10 witness: every handle's lifetime has ended, the last by a destructor
\* that freed a two-page range, and nothing is outstanding.
C10_Witness ==
  /\ Running
  /\ \A h \in Handles : vm[h].life = "dead"
  /\ last.op = "~VirtualMemory"
  /\ Len(calls) = 1
  /\ calls[1].f = "FreePages"
  /\ calls[1].y = 2 * AllocatePageSize
  /\ Outstanding = {}

\* --------------------------------------------------------------------- C11
\* C11: a construction whose preconditions hold and whose attempts all fail
\* completes with the process running and the handle Empty: not Reserved, its
\* address null and its size 0, nothing of the allocator's outstanding; and
\* the destruction of a handle that is not Reserved makes no call.
C11_FailedConstruction ==
  [][/\ (/\ last'.op = "VirtualMemory"
         /\ process' # "undefined"
         /\ Len(Attempted') > 0
         /\ \A i \in 1 .. Len(Attempted') : Attempted'[i].r = nullptr)
        =>
        /\ process' = "running"
        /\ vm'[last'.h].life = "live"
        /\ ~IsReserved(vm'[last'.h])
        /\ vm'[last'.h].address_ = kNullAddress
        /\ vm'[last'.h].size_ = 0
        /\ mapped' = mapped
     /\ (last'.op = "~VirtualMemory" /\ ~IsReserved(vm[last'.h])) =>
          /\ calls' = <<>>
          /\ process' = "running"
          /\ mapped' = mapped
    ]_vars

\* C11 witness: a handle that was not Reserved, its construction having
\* failed, has been destroyed without a call.
C11_Witness ==
  /\ Running
  /\ last.op = "~VirtualMemory"
  /\ calls = <<>>
  /\ vm[last.h].life = "dead"
  /\ Outstanding = {}

\* --------------------------------------------------------------------- C12
\* The calls of the last operation that the allocator answered with failure.
PrimitiveFailed(f) == \E i \in 1 .. Len(calls) : calls[i].f = f /\ calls[i].r = 0

\* C12 as stated: when the primitive FreePages, ReleasePages or
\* SetPermissions answers failure, the Free, Release or SetPermissions of the
\* handle that called it returns and does not end the process.
C12_FailurePropagates ==
  [][(\/ last'.op = "Free" /\ PrimitiveFailed("FreePages")'
      \/ last'.op = "Release" /\ PrimitiveFailed("ReleasePages")'
      \/ last'.op = "SetPermissions" /\ PrimitiveFailed("SetPermissions")')
     => process' # "fatal"
    ]_vars

\* C12 amended: the functions FreePages, ReleasePages and SetPermissions
\* return the primitive's failure and leave the process running.
\* VirtualMemory::Free and VirtualMemory::Release assert the result with
\* CHECK: a failure of the primitive is fatal in every build.
\* VirtualMemory::SetPermissions asserts it with DCHECK: a failure is fatal
\* where DCHECK is compiled in and is returned as false where it is not.
C12_FailureIsCheckedByHandle ==
  /\ [](Running =>
          \A h \in ReservedHandles :
            LET v == vm[h] IN
            /\ LET s == FreePages(Cur, v.page_allocator_, v.address_,
                                  RoundUp(v.size_, AllocatePageSize), FALSE)
               IN s.process = "running" /\ s.ret = FALSE /\ Len(s.calls) = 1
            /\ v.size_ > 0 =>
                 LET s == ReleasePages(Cur, v.page_allocator_, v.address_,
                                       v.size_, 0, FALSE)
                 IN s.process = "running" /\ s.ret = FALSE /\ Len(s.calls) = 1
            /\ LET s == SetPermissions(Cur, v.page_allocator_, v.address_,
                                       v.size_, FALSE)
               IN s.process = "running" /\ s.ret = FALSE /\ Len(s.calls) = 1)
  /\ [][/\ (last'.op = "Free" /\ PrimitiveFailed("FreePages")') =>
             process' = "fatal"
        /\ (last'.op = "Release" /\ PrimitiveFailed("ReleasePages")') =>
             process' = "fatal"
        /\ (last'.op = "SetPermissions" /\ PrimitiveFailed("SetPermissions")') =>
             /\ process' = (IF dcheck THEN "fatal" ELSE "running")
             /\ ret' = FALSE
      ]_vars

\* C12 witness: with DCHECK compiled out, SetPermissions on a Reserved handle
\* returned the failure of the primitive.
C12_Witness ==
  /\ ~dcheck
  /\ Running
  /\ last.op = "SetPermissions"
  /\ IsReserved(vm[last.h])
  /\ PrimitiveFailed("SetPermissions")
  /\ ret = FALSE

\* --------------------------------------------------------------------- C13
\* C13: in VirtualMemory::Free, called by the program or by the destructor,
\* the handle is Empty at the moment the primitive FreePages is called; the
\* arguments of the call are the allocator, the address and the rounded size
\* the handle had before Free began, which the handle no longer holds then;
\* and Free leaves the fields as they were at that moment.
C13_ResetBeforeFree ==
  [][last'.op \in {"Free", "~VirtualMemory"} =>
       \A i \in 1 .. Len(calls') :
         calls'[i].f = "FreePages" =>
           /\ Fields(seen'[i][last'.h]) = <<NoAllocator, kNullAddress, 0>>
           /\ calls'[i].a = vm[last'.h].page_allocator_
           /\ calls'[i].x = vm[last'.h].address_
           /\ calls'[i].y = RoundUp(vm[last'.h].size_, AllocatePageSize)
           /\ last'.op = "Free" => vm'[last'.h] = seen'[i][last'.h]
           /\ \A g \in AllHandles \ {last'.h} :
                vm'[g] = vm[g] /\ seen'[i][g] = vm[g]
    ]_vars

\* C13 witness: Free of a Reserved two-page handle has called FreePages with
\* the handle's address while the handle was already Empty.
C13_Witness ==
  /\ Running
  /\ last.op = "Free"
  /\ Len(calls) = 1
  /\ calls[1].f = "FreePages"
  /\ calls[1].x \in Addrs
  /\ calls[1].y = 2 * AllocatePageSize
  /\ Fields(seen[1][last.h]) = <<NoAllocator, kNullAddress, 0>>

\* --------------------------------------------------------------------- C14
\* C14: in VirtualMemory::Release the stored size already has its new value
\* at the moment the primitive ReleasePages is called, and has it still when
\* Release ends; the value returned is the size before Release minus that new
\* size, whatever the call did.
C14_ShrinkBeforeRelease ==
  [][last'.op = "Release" =>
       \A i \in 1 .. Len(calls') :
         calls'[i].f = "ReleasePages" =>
           /\ seen'[i][last'.h].size_ = calls'[i].z
           /\ calls'[i].y = vm[last'.h].size_
           /\ vm'[last'.h] = seen'[i][last'.h]
           /\ calls'[i].r = 1 =>
                ret' = (vm[last'.h].size_ - seen'[i][last'.h].size_) % Word
    ]_vars

\* C14 witness: Release has shrunk a two-page handle to one page, the stored
\* size being one page already when ReleasePages was called.
C14_Witness ==
  /\ Running
  /\ last.op = "Release"
  /\ Len(calls) = 1
  /\ calls[1].f = "ReleasePages"
  /\ calls[1].y = 2 * AllocatePageSize
  /\ seen[1][last.h].size_ = AllocatePageSize
  /\ ret = AllocatePageSize

\* --------------------------------------------------------------------- C15
\* C15: a Reserved handle's size never exceeds the size its range was
\* allocated with, which is a multiple of the allocate page size.  Free of a
\* Reserved handle of size s calls the primitive FreePages once, with s
\* rounded up to the allocate page size: a multiple of the allocate page size
\* that is at least s, less than a page more, and at most the size the range
\* was allocated with.  No assertion on the size fails (the process ends only
\* if the primitive answers failure) and the handle ends Empty.
C15_FreeRoundsUp ==
  /\ [](Running =>
          \A h \in ReservedHandles :
            /\ reserved[vm[h].address_] # Unmapped
            /\ reserved[vm[h].address_] % AllocatePageSize = 0
            /\ vm[h].size_ <= reserved[vm[h].address_])
  /\ [][(last'.op = "Free" /\ IsReserved(vm[last'.h])) =>
          LET s == vm[last'.h].size_
              S0 == reserved[vm[last'.h].address_]
          IN /\ Len(calls') = 1
             /\ calls'[1].f = "FreePages"
             /\ calls'[1].x = vm[last'.h].address_
             /\ calls'[1].y = RoundUp(s, AllocatePageSize)
             /\ calls'[1].y % AllocatePageSize = 0
             /\ s <= calls'[1].y
             /\ calls'[1].y < s + AllocatePageSize
             /\ calls'[1].y <= S0
             /\ process' = (IF calls'[1].r = 1 THEN "running" ELSE "fatal")
             /\ Fields(vm'[last'.h]) = <<NoAllocator, kNullAddress, 0>>
      ]_vars

\* C15 witness: a handle shrunk to one commit page, less than an allocate
\* page, has been freed with a FreePages call of one allocate page.
C15_Witness ==
  /\ Running
  /\ last.op = "Free"
  /\ CommitPageSize < AllocatePageSize
  /\ last.a1 = CommitPageSize
  /\ Len(calls) = 1
  /\ calls[1].y = AllocatePageSize
  /\ Fields(vm[last.h]) = <<NoAllocator, kNullAddress, 0>>

\* --------------------------------------------------------------------- C16
\* C16: the platform's parameterless OnCriticalMemoryPressure() is called
\* exactly after the calls of the sized OnCriticalMemoryPressure(length) that
\* answered false, right after them; OnCriticalMemoryPressure returns true
\* whatever the platform answers; and while the attempts fail the loop of
\* AllocatePages goes on to its bound of kAllocationTries attempts whatever
\* the platform answered.
C16_NotificationAlwaysTrue ==
  /\ \A i \in 1 .. Len(calls) :
       /\ calls[i].f = "OnCriticalMemoryPressure(length)" =>
            (calls[i].r = 0 <=>
               (i < Len(calls) /\ calls[i + 1].f = "OnCriticalMemoryPressure()"))
       /\ calls[i].f = "OnCriticalMemoryPressure()" =>
            /\ i > 1
            /\ calls[i - 1].f = "OnCriticalMemoryPressure(length)"
            /\ calls[i - 1].r = 0
  /\ \A sized \in BOOLEAN :
       LET s == OnCriticalMemoryPressure(Cur, AllocatePageSize, sized)
       IN s.ret = TRUE /\ s.process = "running"
  /\ (Reserved_Done /\ AllFailed) =>
       /\ Len(Attempted) = kAllocationTries
       /\ Len(Notified) = kAllocationTries
       /\ Len(CallsOf("OnCriticalMemoryPressure()")) =
            Len(SelectSeq(Notified, LAMBDA e : e.r = 0))

\* C16 witness: every attempt failed; the platform's sized callback answered
\* false after the first, so the parameterless one was called, and true after
\* the second.
C16_Witness ==
  /\ Reserved_Done
  /\ AllFailed
  /\ Len(calls) = 2 * kAllocationTries + 1
  /\ calls[2].r = 0
  /\ calls[3].f = "OnCriticalMemoryPressure()"
  /\ Notified[kAllocationTries].r = 1

\* --------------------------------------------------------------------- C17
\* State s is what a function leaves that made the one call e, returned ok
\* and left the process running.
OneCall(s, e, ok) ==
  /\ s.calls = <<e>>
  /\ s.ret = ok
  /\ s.process = "running"

\* C17: FreePages, ReleasePages and SetPermissions, called with their
\* preconditions met, make exactly one call, of their primitive and with
\* their own arguments, and return its answer, true or false.  In every Free,
\* Release, SetPermissions and destruction of a handle there is at most one
\* primitive call and no memory pressure notification.
C17_OnePrimitiveCall ==
  /\ [](Running =>
          \A h \in ReservedHandles : \A ok \in BOOLEAN :
            LET v == vm[h]
                size == RoundUp(v.size_, AllocatePageSize)
            IN
            /\ OneCall(FreePages(Cur, v.page_allocator_, v.address_, size, ok),
                       Ev("FreePages", v.page_allocator_, v.address_, size, 0,
                          Bit(ok)), ok)
            /\ v.size_ > 0 =>
                 OneCall(ReleasePages(Cur, v.page_allocator_, v.address_,
                                      v.size_, 0, ok),
                         Ev("ReleasePages", v.page_allocator_, v.address_,
                            v.size_, 0, Bit(ok)), ok)
            /\ OneCall(SetPermissions(Cur, v.page_allocator_, v.address_,
                                      v.size_, ok),
                       Ev("SetPermissions", v.page_allocator_, v.address_,
                          v.size_, 0, Bit(ok)), ok))
  /\ [][last'.op \in {"Free", "Release", "SetPermissions", "~VirtualMemory"} =>
          /\ Len(calls') <= 1
          /\ Notified' = <<>>
          /\ CallsOf("OnCriticalMemoryPressure()")' = <<>>
          /\ \A i \in 1 .. Len(calls') :
               calls'[i].f =
                 CASE last'.op = "Release" -> "ReleasePages"
                   [] last'.op = "SetPermissions" -> "SetPermissions"
                   [] OTHER -> "FreePages"
      ]_vars

\* C17 witness: the primitive ReleasePages answered failure to the one call a
\* Release made of it.
C17_Witness ==
  /\ last.op = "Release"
  /\ process = "fatal"
  /\ Len(calls) = 1
  /\ calls[1].f = "ReleasePages"
  /\ calls[1].r = 0

\* --------------------------------------------------------------------- C18
\* Every thread has returned from TakeControl.
AllReturned == \A t \in Threads : pc[t] = TakeControlEnd

\* C18: TakeControl is not atomic across threads.  When every thread has
\* made its three copies and none has begun the reset, every destination
\* holds the source's allocator, address and size while the source holds
\* them too; the statements of the reset change the source only; so when all
\* have returned the source is Empty and the destinations are as they were.
C18_TakeControlNotAtomic ==
  /\ []((\A t \in Threads : pc[t] = 4) =>
          /\ IsReserved(vm[RaceSource])
          /\ \A t \in Threads : Fields(vm[t]) = Fields(vm[RaceSource]))
  /\ [][\A t \in Threads :
          (pc[t] >= 4 /\ pc'[t] # pc[t]) =>
            \A u \in Threads : vm'[u] = vm[u]
      ]_vars
  /\ [](AllReturned =>
          Fields(vm[RaceSource]) = <<NoAllocator, kNullAddress, 0>>)

\* C18 witness: all threads have returned, the source is Empty and every
\* destination is Reserved with the same allocator, address and size.
C18_Witness ==
  /\ AllReturned
  /\ process = "running"
  /\ ~IsReserved(vm[RaceSource])
  /\ \A t \in Threads :
       /\ IsReserved(vm[t])
       /\ vm[t].size_ > 0
       /\ \A u \in Threads : Fields(vm[u]) = Fields(vm[t])

\* --------------------------------------------------------------------- C19
\* The address the allocator gave the last operation, or null.
Given(c) ==
  LET got == SelectSeq(c, LAMBDA e : e.f = "AllocatePages" /\ e.r # nullptr)
  IN IF got = <<>> THEN nullptr ELSE got[1].r

\* C19: AllocVirtualMemory and AlignedAllocVirtualMemory, called with a
\* result handle that is not Reserved, leave the process running, make no
\* FreePages call, leave every other handle as it was and the local `vm`
\* gone.  When the allocator gave a range they return true and the result
\* handle holds the allocator, that address and the rounded size, which no
\* other handle holds and which the allocator has outstanding.  When it gave
\* none they return false, the result handle's fields are as before and
\* nothing more is outstanding.
C19_AllocFrame ==
  [][(/\ last'.op \in {"AllocVirtualMemory", "AlignedAllocVirtualMemory"}
      /\ ~IsReserved(vm[last'.h]))
     =>
     LET h == last'.h
         a == Given(calls')
     IN /\ process' = "running"
        /\ CallsOf("FreePages")' = <<>>
        /\ \A g \in AllHandles \ {h} : vm'[g] = vm[g]
        /\ vm'[h].life = "live"
        /\ a # nullptr =>
             /\ ret' = TRUE
             /\ Fields(vm'[h]) =
                  <<PlatformAllocator, a, RoundUp(last'.a1, AllocatePageSize)>>
             /\ a % RoundUp(last'.a2, AllocatePageSize) = 0
             /\ \A g \in ReservedHandles' \ {h} : vm'[g].address_ # a
             /\ mapped[a] = Unmapped
             /\ mapped' = [mapped EXCEPT ![a] = vm'[h].size_]
        /\ a = nullptr =>
             /\ ret' = FALSE
             /\ Fields(vm'[h]) = Fields(vm[h])
             /\ mapped' = mapped
    ]_vars

\* C19 witness: AlignedAllocVirtualMemory has filled a handle with a page at
\* an alignment of two pages while another handle is Reserved.
C19_Witness ==
  /\ Running
  /\ last.op = "AlignedAllocVirtualMemory"
  /\ last.a2 = 2 * AllocatePageSize
  /\ ret = TRUE
  /\ vm[last.h].address_ = 2 * AllocatePageSize
  /\ vm[last.h].size_ = AllocatePageSize
  /\ vm[Tmp].life = "unborn"
  /\ \E g \in ReservedHandles : g # last.h

====
